---- MODULE Spec2Model ----
(***************************************************************************)
(* Model of the identity-resolution core of skynet-accounts:               *)
(*   api/jwt.go        ValidateToken, keyForToken, oathkeeperPublicKeys,   *)
(*                     tokenFromRequest                                    *)
(*   api routes file   withAuth (the credential resolver)                  *)
(* One request is handled at a time; its handling is split into the steps  *)
(* of withAuth so that the order of the steps can be stated.               *)
(*                                                                         *)
(* Values that Go types as interface{} are encoded as strings or integers  *)
(* with reserved values for "absent" and "not of the expected type".       *)
(* An error is the set of the sentinel errors and messages it contains     *)
(* (errors.Contains(err, X) is X \in err); the nil error is {}.            *)
(***************************************************************************)
EXTENDS Integers, FiniteSets, Sequences, TLC

\* ------------------------------------------------------------------ bounds

\* Validation times run over 1..MaxTime; exp claims over 0..MaxTime.
MaxTime == 2

\* ------------------------------------------------------- program constants

StatusUnauthorized == 401
StatusInternalServerError == 500

\* ------------------------------------------------------------ value spaces

\* Key identifiers the issuer may publish.
Kids == {"k1", "k2"}
\* A kid header that is present but not a JSON string.
KidNotString == "<not-a-string>"

\* The sub claim: a string, absent, or present with another JSON type.
Subs == {"u1", "u2"}
SubAbsent == "<absent>"
SubNotString == "<not-a-string>"

\* The exp claim: absent, or NumericDate (0 is a value the library treats
\* as "not set").
ExpAbsent == 0 - 1
ExpVals == {ExpAbsent} \cup (0 .. MaxTime)

\* alg header values with a registered signing method.  RS256 is an
\* *jwt.SigningMethodRSA; HS256 is an *jwt.SigningMethodHMAC.
Algs == {"RS256", "HS256"}

\* Who produced the signature.  For an RS256 token: the private key of that
\* kid.  For an HS256 token: an HMAC whose secret is the public-key bytes
\* of that kid.  "forged" matches no key.
Signers == Kids \cup {"forged"}

NoErr == {}

NilToken ==
    [kind |-> "nil", alg |-> "", kid |-> "", signer |-> "", exp |-> ExpAbsent, sub |-> SubAbsent]

\* A token string that does not split into three base64 segments.
MalformedToken ==
    [kind |-> "malformed", alg |-> "", kid |-> "", signer |-> "", exp |-> ExpAbsent, sub |-> SubAbsent]

\* Well-formed token strings (no iat and no nbf claim).
JWTs ==
    [kind : {"jwt"}, alg : Algs, kid : Kids \cup {KidNotString}, signer : Signers,
     exp : ExpVals, sub : Subs \cup {SubAbsent, SubNotString}]

TokenStrings == JWTs \cup {MalformedToken}

\* The key-set cache: the nil pointer, or a parsed set of keys.
NilKeySet == [nil |-> TRUE, keys |-> {}]
KeySetOf(ks) == [nil |-> FALSE, keys |-> ks]

\* Outcomes of the HTTP GET of the key document and of reading and parsing it.
NetStatuses == {"ok", "http-error", "read-error", "parse-error"}

\* The user store and the API key store (external collaborators).
NilUser == "<nil>"
Users == {"u1"}
APIKeyOwner == [k \in {"ak1", "ak2"} |-> IF k = "ak1" THEN "u1" ELSE "ghost"]
NoAPIKeyHeader == ""
APIKeyHeaders == {NoAPIKeyHeader, "ak1", "ak2", "akX"}

ErrAPIKeyNotAllowed == "ErrAPIKeyNotAllowed"
ErrNoAPIKey == "ErrNoAPIKey"
ErrNoToken == "ErrNoToken"
ErrInvalidAPIKey == "ErrInvalidAPIKey"
ErrUserNotFound == "ErrUserNotFound"
ErrNoSuitableKey == "no suitable keys found"
ErrSigningMethod == "unexpected signing method"

\* ------------------------------------------------------------- variables

VARIABLES
    now,                \* the clock (time.Now, jwt.TimeFunc)
    published,          \* kids in the key document the issuer serves
    oathkeeperPubKeys,  \* the package-level cache of jwt.go
    pc,                 \* where withAuth is for the current request
    req,                \* the current request
    u,                  \* withAuth's local u
    token,              \* withAuth's local token
    err,                \* withAuth's local err
    ctxToken,           \* the token in the context passed on
    handler,            \* the downstream handler's call, if any
    resp,               \* the error response written, if any
    vres,               \* what the ValidateToken call of this request did
    resolved            \* the userAndTokenByAPIKey call of this request, if any

\* State of the components that are checked under specifications of their own.
VARIABLES
    kc,                 \* concurrent callers of oathkeeperPublicKeys
    aks,                \* the API key store and the last API key request
    vl,                 \* a call of APIKeyPOST.Valid
    ck,                 \* the cookie codec, its clock and the last cookie
    mt,                 \* a call of numChunks
    mu,                 \* a call of a cost function of the usage meter
    us,                 \* the registered operations, the expected statistics, the last UserStats
    tx,                 \* a call of tokenFromRequest
    tc,                 \* a call of tokenFromContext
    iso,                \* one request served over two API key stores
    rt                  \* one request served by the router

\* The variables of withAuth's request handling.
authVars == <<now, pc, req, u, token, err, ctxToken, handler, resp, vres, resolved>>

\* The variables outside withAuth's sequential specification.
extVars == <<kc, aks, vl, ck, mt, mu, us, tx, tc, iso, rt>>

vars ==
    <<now, published, oathkeeperPubKeys, pc, req, u, token, err, ctxToken,
      handler, resp, vres, resolved, extVars>>

\* ------------------------------------------------- api/jwt.go: key cache

\* oathkeeperPublicKeys, given the cache and what the network would answer
\* (net.status) with the document it would serve (net.doc).  Returns the
\* key set, the error, the cache afterwards and the number of fetches.
oathkeeperPublicKeys_refetch(cache, net) ==
    IF net.status # "ok"
    THEN [set |-> NilKeySet, err |-> {net.status}, cache |-> cache, fetches |-> 1]
    ELSE [set |-> KeySetOf(net.doc), err |-> NoErr, cache |-> KeySetOf(net.doc), fetches |-> 1]

oathkeeperPublicKeys(cache, net) ==
    IF cache.nil
    THEN IF net.status # "ok"
         THEN [set |-> NilKeySet, err |-> {net.status}, cache |-> cache, fetches |-> 1]
         ELSE [set |-> KeySetOf(net.doc), err |-> NoErr,
               cache |-> KeySetOf(net.doc), fetches |-> 1]
    ELSE [set |-> cache, err |-> NoErr, cache |-> cache, fetches |-> 0]

\* ------------------------------------------- api/jwt.go: token validation

IsSigningMethodRSA(alg) == alg = "RS256"

NoKey == [type |-> "none", kid |-> ""]

\* keys[0].Materialize() of an RSA JWK: an *rsa.PublicKey.
Materialize(kid) == [type |-> "rsa-public", kid |-> kid]

\* oathkeeperPublicKeys was not called.
NoLookup(cache) == [set |-> NilKeySet, err |-> NoErr, cache |-> cache, fetches |-> 0]

\* A Keyfunc result, with what the key-set lookup (ks) did, if it ran.
KeyResult(key, e, ks, looked) ==
    [key |-> key, err |-> e, cache |-> ks.cache, fetches |-> ks.fetches,
     set |-> ks.set, looked |-> looked]

keyForToken_anyalg(t, cache, net) ==
    LET ks == oathkeeperPublicKeys(cache, net) IN
    IF ks.err # NoErr THEN KeyResult(NoKey, ks.err, ks, TRUE)
    ELSE IF t.kid = KidNotString THEN KeyResult(NoKey, {"kid is not a string"}, ks, TRUE)
    ELSE IF t.kid \notin ks.set.keys THEN KeyResult(NoKey, {ErrNoSuitableKey}, ks, TRUE)
    ELSE KeyResult(Materialize(t.kid), NoErr, ks, TRUE)

\* keyForToken: the Keyfunc handed to jwt.Parse.
keyForToken(t, cache, net) ==
    IF ~IsSigningMethodRSA(t.alg)
    THEN KeyResult(NoKey, {ErrSigningMethod}, NoLookup(cache), FALSE)
    ELSE LET ks == oathkeeperPublicKeys(cache, net) IN
         IF ks.err # NoErr THEN KeyResult(NoKey, ks.err, ks, TRUE)
         ELSE IF t.kid = KidNotString
         THEN KeyResult(NoKey, {"kid is not a string"}, ks, TRUE)
         ELSE IF t.kid \notin ks.set.keys
         THEN KeyResult(NoKey, {ErrNoSuitableKey}, ks, TRUE)
         ELSE KeyResult(Materialize(t.kid), NoErr, ks, TRUE)

\* jwt.MapClaims.Valid as jwt.Parse calls it (dgrijalva/jwt-go v3):
\* VerifyExpiresAt(now, false) accepts a missing or non-numeric exp, and
\* verifyExp accepts exp = 0 and otherwise requires now <= exp.  The tokens
\* of the model carry no iat and no nbf, which pass likewise.
MapClaimsValid(t, at) ==
    \/ t.exp = ExpAbsent
    \/ t.exp = 0
    \/ at <= t.exp

\* token.Method.Verify(signingString, signature, key).  RSA verification
\* needs an *rsa.PublicKey and the signature of the matching private key;
\* HMAC verification needs a []byte key and fails with ErrInvalidKeyType
\* on anything else.
MethodVerify(t, key) ==
    IF IsSigningMethodRSA(t.alg)
    THEN key.type = "rsa-public" /\ t.signer = key.kid
    ELSE key.type = "bytes" /\ t.signer = key.kid

ParseResult(t, valid, e, k) ==
    [token |-> t, valid |-> valid, err |-> e, cache |-> k.cache,
     fetches |-> k.fetches, set |-> k.set, looked |-> k.looked]

\* jwt.Parse(t, keyForToken): split the segments, call the Keyfunc, check
\* the claims, check the signature.
jwtParse(t, at, cache, net) ==
    IF t.kind # "jwt"
    THEN ParseResult(NilToken, FALSE, {"token contains an invalid number of segments"},
                     KeyResult(NoKey, NoErr, NoLookup(cache), FALSE))
    ELSE LET k == keyForToken(t, cache, net) IN
         IF k.err # NoErr THEN ParseResult(t, FALSE, k.err, k)
         ELSE LET claimErr == IF MapClaimsValid(t, at) THEN {} ELSE {"token is expired"}
                  sigErr == IF MethodVerify(t, k.key) THEN {} ELSE {"signature is invalid"}
              IN ParseResult(t, claimErr \cup sigErr = {}, claimErr \cup sigErr, k)

\* ValidateToken(t).
ValidateToken(t, at, cache, net) ==
    LET p == jwtParse(t, at, cache, net) IN
    IF p.err # NoErr THEN [p EXCEPT !.token = NilToken, !.valid = FALSE]
    ELSE IF ~p.valid THEN [p EXCEPT !.token = NilToken, !.err = {"token is invalid"}]
    ELSE p

\* tokenFromRequest: the Authorization header must split in two around
\* "Bearer"; a request without the header has one part only.
NoAuthHeader == [scheme |-> "", tok |-> NilToken]
AuthHeaders == {NoAuthHeader} \cup [scheme : {"Bearer"}, tok : TokenStrings]

tokenFromRequest(r) ==
    IF r.auth.scheme # "Bearer"
    THEN [tok |-> NilToken, err |-> {"invalid authorization header"}]
    ELSE [tok |-> r.auth.tok, err |-> NoErr]

\* --------------------------------------------- credential resolver helpers

\* What a ValidateToken call did, kept for the request: the token string,
\* the token returned, the error, the clock, the cache before, the fetches
\* made, the key set looked up, and what the network answered.
NoValidation ==
    [called |-> FALSE, tok |-> NilToken, ret |-> NilToken, err |-> NoErr, at |-> 0,
     before |-> NilKeySet, fetches |-> 0, set |-> NilKeySet, looked |-> FALSE,
     doc |-> {}, net |-> "ok"]

ValidationRecord(t, v, at, cache, net) ==
    [called |-> TRUE, tok |-> t, ret |-> v.token, err |-> v.err, at |-> at,
     before |-> cache, fetches |-> v.fetches, set |-> v.set, looked |-> v.looked,
     doc |-> net.doc, net |-> net.status]

AuthResult(user, t, e, cache, v) ==
    [u |-> user, token |-> t, err |-> e, cache |-> cache, v |-> v]

\* api.userAndTokenByRequestToken: extract the token, validate it, resolve
\* the user by the sub claim.
userAndTokenByRequestToken(r, at, cache, net) ==
    LET tr == tokenFromRequest(r) IN
    IF tr.err # NoErr THEN AuthResult(NilUser, NilToken, tr.err, cache, NoValidation)
    ELSE LET v == ValidateToken(tr.tok, at, cache, net)
             rec == ValidationRecord(tr.tok, v, at, cache, net)
         IN IF v.err # NoErr THEN AuthResult(NilUser, NilToken, v.err, v.cache, rec)
            ELSE IF v.token.sub \notin Users
            THEN AuthResult(NilUser, NilToken, {ErrUserNotFound}, v.cache, rec)
            ELSE AuthResult(v.token.sub, v.token, NoErr, v.cache, rec)

\* apiKeyFromRequest: the API key header, or ErrNoAPIKey.
apiKeyFromRequest(r) ==
    IF r.apiKey = NoAPIKeyHeader
    THEN [ak |-> NoAPIKeyHeader, err |-> {ErrNoAPIKey}]
    ELSE [ak |-> r.apiKey, err |-> NoErr]

\* The token the API key resolver makes for the key's owner.
TokenForUser(sub) ==
    [kind |-> "jwt", alg |-> "RS256", kid |-> "accounts", signer |-> "accounts",
     exp |-> ExpAbsent, sub |-> sub]

\* Failures of the stores behind the resolver, as withAuth tells them
\* apart: none, an unexpected one, one that wraps ErrNoAPIKey.
StoreFaults == {"none", "store failure", ErrNoAPIKey}

\* api.userAndTokenByAPIKey: look the key up, then its owner.
userAndTokenByAPIKey(ak, fault) ==
    IF fault # "none" THEN [u |-> NilUser, token |-> NilToken, err |-> {fault}]
    ELSE IF ak \notin DOMAIN APIKeyOwner
    THEN [u |-> NilUser, token |-> NilToken, err |-> {ErrInvalidAPIKey}]
    ELSE IF APIKeyOwner[ak] \notin Users
    THEN [u |-> NilUser, token |-> NilToken, err |-> {ErrUserNotFound}]
    ELSE [u |-> APIKeyOwner[ak], token |-> TokenForUser(APIKeyOwner[ak]), err |-> NoErr]

\* ------------------------------------------------- withAuth: its branches

Respond(status, e) == [kind |-> "respond", status |-> status, err |-> e]
CallHandler == [kind |-> "handler", status |-> 0, err |-> NoErr]
GoOn == [kind |-> "next", status |-> 0, err |-> NoErr]

\* After userAndTokenByRequestToken: success goes to the handler, any
\* error goes on to the API key.
TokenBranch_failfast(e) ==
    IF e = NoErr THEN CallHandler ELSE Respond(StatusUnauthorized, e)

TokenBranch_keyfirst(e) == GoOn

TokenBranch(e) ==
    IF e = NoErr THEN CallHandler ELSE GoOn

\* After apiKeyFromRequest: no key is a 401 with its error, a key on a
\* route that does not allow one is a 401 with ErrAPIKeyNotAllowed.
APIKeyBranch_nopolicy(akErr, allowsAPIKey) ==
    IF akErr # NoErr THEN Respond(StatusUnauthorized, akErr) ELSE GoOn

APIKeyBranch_nokeyok(akErr, allowsAPIKey) ==
    IF ~allowsAPIKey THEN Respond(StatusUnauthorized, {ErrAPIKeyNotAllowed}) ELSE GoOn

APIKeyBranch(akErr, allowsAPIKey) ==
    IF akErr # NoErr THEN Respond(StatusUnauthorized, akErr)
    ELSE IF ~allowsAPIKey THEN Respond(StatusUnauthorized, {ErrAPIKeyNotAllowed})
    ELSE GoOn

\* After userAndTokenByAPIKey: the two conditions on err, in their order.
ResolverBranch(e) ==
    IF e # NoErr /\ ErrNoAPIKey \notin e /\ ErrInvalidAPIKey \notin e
       /\ ErrUserNotFound \notin e
    THEN Respond(StatusInternalServerError, e)
    ELSE IF e # NoErr /\ (ErrInvalidAPIKey \in e \/ ErrUserNotFound \in e)
    THEN Respond(StatusUnauthorized, e \cup {"failed to fetch user by API key"})
    ELSE CallHandler

\* --------------------------------------------------------------- the state

NoResp == [written |-> FALSE, status |-> 0, err |-> NoErr]
NoResolve == [called |-> FALSE, fault |-> "none"]
NoCall == [called |-> FALSE, user |-> NilUser, ctx |-> NilToken]
Requests == [auth : AuthHeaders, apiKey : APIKeyHeaders, allowsAPIKey : BOOLEAN]
NoRequest == [auth |-> NoAuthHeader, apiKey |-> NoAPIKeyHeader, allowsAPIKey |-> FALSE]

\* No request is in withAuth.
AuthIdle ==
    /\ now = 1
    /\ pc = "idle"
    /\ req = NoRequest
    /\ u = NilUser
    /\ token = NilToken
    /\ err = NoErr
    /\ ctxToken = NilToken
    /\ handler = NoCall
    /\ resp = NoResp
    /\ vres = NoValidation
    /\ resolved = NoResolve

\* --------------------------------- concurrent callers of the key cache

\* Goroutines that may be inside oathkeeperPublicKeys at the same time.
NumProcs == 2
Procs == 1 .. NumProcs

\* One call of oathkeeperPublicKeys: where it is, the response and the parsed
\* set it holds, what it returned.
IdleCall == [pc |-> "idle", doc |-> {}, ret |-> NilKeySet, err |-> NoErr]

\* No API key request yet: no store call, no response.
NoAKCall == [fn |-> "none", user |-> NilUser, id |-> 0, public |-> FALSE, skylinks |-> {}]
NoAKResp == [op |-> "none", kind |-> "none", status |-> 0, objs |-> {}, created |-> 0]
AKIdle == [store |-> {}, nextID |-> 1, call |-> NoAKCall, resp |-> NoAKResp]

\* No call of APIKeyPOST.Valid.
VLIdle == [body |-> [Public |-> FALSE, Skylinks |-> <<>>], called |-> FALSE, ret |-> FALSE]

\* No cookie written or read, a process started without cookie keys.
NoCookieValue == [name |-> "", body |-> "", hash |-> "", block |-> "", intact |-> FALSE]
NoCookie == [Name |-> "", Value |-> NoCookieValue, Expires |-> 0, MaxAge |-> 0]
NoWrite == [called |-> FALSE, token |-> "", exp |-> 0, at |-> 0, err |-> NoErr]
Absent == [ok |-> FALSE, token |-> ""]
NoRead == [called |-> FALSE, hash |-> "", block |-> "", tampered |-> FALSE, res |-> Absent]
CKIdle == [hash |-> "", block |-> "", clock |-> 0, cookie |-> NoCookie,
           write |-> NoWrite, read |-> NoRead]

\* No call of numChunks.
MTIdle == [size |-> 0, called |-> FALSE, ret |-> 0]

\* No cost function called.
MUIdle == [size |-> 0, op |-> "none", ret |-> 0]

\* Nothing registered: the statistics of a user without operations.
NoStats ==
    [NumUploads |-> 0, BandwidthUploads |-> 0, NumDownloads |-> 0, BandwidthDownloads |-> 0,
     NumRegReads |-> 0, BandwidthRegReads |-> 0, NumRegWrites |-> 0, BandwidthRegWrites |-> 0]
StatUsers == {"u1", "u2"}
USIdle == [db |-> <<>>, expected |-> [usr \in StatUsers |-> NoStats],
           stats |-> [called |-> FALSE, user |-> NilUser, ret |-> NoStats]]

\* A request without the login cookie; tokenFromRequest not called.
NoReqCookie == [present |-> FALSE, tok |-> NilToken]
TXIdle == [auth |-> NoAuthHeader, cookie |-> NoReqCookie, called |-> FALSE,
           res |-> [tok |-> NilToken, err |-> NoErr]]

\* The request context without a token value; tokenFromContext not called.
NoCtxValue == [kind |-> "none", claims |-> "", tok |-> NilToken]
NoCtxResult == [outcome |-> "none", sub |-> "", claimsNil |-> TRUE, token |-> NoCtxValue, err |-> NoErr]
TCIdle == [ctx |-> NoCtxValue, called |-> FALSE, res |-> NoCtxResult]

\* Two stores side by side, no request served yet.
ISOIdle == [a |-> AKIdle, b |-> AKIdle, usr |-> NilUser, op |-> "none", id |-> 0,
            hexok |-> TRUE, fault |-> FALSE]

\* No request routed yet.
NoRoute == [method |-> "", path |-> <<>>,
            wrap |-> [handler |-> "", auth |-> "", allowsAPIKey |-> FALSE]]
RTIdle == [route |-> NoRoute, apiKey |-> "", fault |-> "none", served |-> FALSE,
           out |-> [kind |-> "none", status |-> 0, err |-> {}], user |-> "<nil>"]

\* The other components at rest.
KCIdle == kc = [p \in Procs |-> IdleCall]
ExtIdle ==
    /\ KCIdle
    /\ rt = RTIdle
    /\ iso = ISOIdle
    /\ tc = TCIdle
    /\ tx = TXIdle
    /\ us = USIdle
    /\ mu = MUIdle
    /\ aks = AKIdle
    /\ vl = VLIdle
    /\ ck = CKIdle
    /\ mt = MTIdle

Init ==
    /\ now = 1
    /\ published = {"k1"}
    /\ oathkeeperPubKeys = NilKeySet
    /\ pc = "idle"
    /\ req = NoRequest
    /\ u = NilUser
    /\ token = NilToken
    /\ err = NoErr
    /\ ctxToken = NilToken
    /\ handler = NoCall
    /\ resp = NoResp
    /\ vres = NoValidation
    /\ resolved = NoResolve
    /\ ExtIdle

\* The clock advances.  withAuth reads the clock and the key document in one
\* step only (WithAuthToken), so changes of either are taken between requests.
Tick ==
    /\ UNCHANGED extVars
    /\ pc = "idle"
    /\ now < MaxTime
    /\ now' = now + 1
    /\ UNCHANGED <<published, oathkeeperPubKeys, pc, req, u, token, err, ctxToken,
                   handler, resp, vres, resolved>>

\* The issuer publishes one more key.
IssuerPublish ==
    /\ UNCHANGED extVars
    /\ pc = "idle"
    /\ \E k \in Kids \ published : published' = published \cup {k}
    /\ UNCHANGED <<now, oathkeeperPubKeys, pc, req, u, token, err, ctxToken,
                   handler, resp, vres, resolved>>

\* A request reaches withAuth.
Arrive ==
    /\ UNCHANGED extVars
    /\ pc = "idle"
    /\ \E r \in Requests : req' = r
    /\ pc' = "token"
    /\ UNCHANGED <<now, published, oathkeeperPubKeys, u, token, err, ctxToken,
                   handler, resp, vres, resolved>>

\* withAuth has returned; the request and its locals are gone.
Return ==
    /\ UNCHANGED extVars
    /\ pc = "done"
    /\ pc' = "idle"
    /\ req' = NoRequest
    /\ u' = NilUser
    /\ token' = NilToken
    /\ err' = NoErr
    /\ ctxToken' = NilToken
    /\ handler' = NoCall
    /\ resp' = NoResp
    /\ vres' = NoValidation
    /\ resolved' = NoResolve
    /\ UNCHANGED <<now, published, oathkeeperPubKeys>>

\* What a branch of withAuth does next.
Take(b, nextpc) ==
    /\ pc' = CASE b.kind = "respond" -> "done"
               [] b.kind = "handler" -> "attach"
               [] OTHER -> nextpc
    /\ resp' = IF b.kind = "respond"
               THEN [written |-> TRUE, status |-> b.status, err |-> b.err]
               ELSE resp

\* u, token, err := api.userAndTokenByRequestToken(req); if err == nil ...
WithAuthToken ==
    /\ UNCHANGED extVars
    /\ pc = "token"
    /\ \E st \in NetStatuses :
         LET r == userAndTokenByRequestToken(req, now, oathkeeperPubKeys,
                                             [status |-> st, doc |-> published])
         IN /\ u' = r.u
            /\ token' = r.token
            /\ err' = r.err
            /\ oathkeeperPubKeys' = r.cache
            /\ vres' = r.v
            /\ Take(TokenBranch(r.err), "apikey")
    /\ UNCHANGED <<now, published, req, ctxToken, handler, resolved>>

\* ak, err := apiKeyFromRequest(req); if err != nil ...; if !allowsAPIKey ...
WithAuthAPIKey ==
    /\ UNCHANGED extVars
    /\ pc = "apikey"
    /\ LET a == apiKeyFromRequest(req)
       IN /\ err' = a.err
          /\ Take(APIKeyBranch(a.err, req.allowsAPIKey), "resolve")
    /\ UNCHANGED <<now, published, oathkeeperPubKeys, req, u, token, ctxToken,
                   handler, vres, resolved>>

\* u, token, err = api.userAndTokenByAPIKey(req, *ak); the two ifs on err.
WithAuthResolve ==
    /\ UNCHANGED extVars
    /\ pc = "resolve"
    /\ \E fault \in StoreFaults :
         LET r == userAndTokenByAPIKey(req.apiKey, fault)
         IN /\ u' = r.u
            /\ token' = r.token
            /\ err' = r.err
            /\ resolved' = [called |-> TRUE, fault |-> fault]
            /\ Take(ResolverBranch(r.err), "done")
    /\ UNCHANGED <<now, published, oathkeeperPubKeys, req, ctxToken, handler, vres>>

\* ctx := jwt.ContextWithToken(req.Context(), token)
WithAuthAttach ==
    /\ UNCHANGED extVars
    /\ pc = "attach"
    /\ ctxToken' = token
    /\ pc' = "call"
    /\ UNCHANGED <<now, published, oathkeeperPubKeys, req, u, token, err, handler,
                   resp, vres, resolved>>

\* h(u, w, req.WithContext(ctx), ps)
WithAuthHandler ==
    /\ UNCHANGED extVars
    /\ pc = "call"
    /\ handler' = [called |-> TRUE, user |-> u, ctx |-> ctxToken]
    /\ pc' = "done"
    /\ UNCHANGED <<now, published, oathkeeperPubKeys, req, u, token, err, ctxToken,
                   resp, vres, resolved>>

Next ==
    \/ Tick
    \/ IssuerPublish
    \/ Arrive
    \/ Return
    \/ WithAuthToken
    \/ WithAuthAPIKey
    \/ WithAuthResolve
    \/ WithAuthAttach
    \/ WithAuthHandler

Spec == Init /\ [][Next]_vars

\* ------------------------------------------------------------ properties

\* The token path of the current request has run and did not authenticate.
TokenPathFailed ==
    /\ pc \notin {"idle", "token"}
    /\ ~(vres.called /\ vres.err = NoErr /\ vres.ret.sub \in Users)

\* The token path of the current request authenticated it.
TokenPathOK ==
    /\ pc \notin {"idle", "token"}
    /\ vres.called /\ vres.err = NoErr /\ vres.ret.sub \in Users

\* The request's API key is stored and its owner exists.
KeyOfExistingUser ==
    /\ req.apiKey \in DOMAIN APIKeyOwner
    /\ APIKeyOwner[req.apiKey] \in Users

\* C1: a request whose token fails validation and whose API key resolves to
\* an existing user, on a route that allows API keys, ends with the handler
\* called with the key's owner and with no error response written.
C1_InvalidTokenFallsThroughToAPIKey ==
    (/\ pc = "done"
     /\ vres.called /\ vres.err # NoErr
     /\ req.allowsAPIKey
     /\ KeyOfExistingUser
     /\ resolved.fault = "none")
    => /\ handler.called
       /\ handler.user = APIKeyOwner[req.apiKey]
       /\ ~resp.written

C1_Witness ==
    /\ pc = "done"
    /\ vres.called /\ vres.err # NoErr
    /\ req.allowsAPIKey
    /\ KeyOfExistingUser
    /\ resolved.called /\ resolved.fault = "none"
    /\ handler.called

\* C2: a request without a valid token that presents an API key on a route
\* that does not allow API keys ends with ErrAPIKeyNotAllowed, which is not
\* the error of a request without credentials; neither the API key
\* resolver nor the handler is called.
C2_APIKeyNotAllowed ==
    (/\ TokenPathFailed
     /\ pc # "apikey"
     /\ req.apiKey # NoAPIKeyHeader
     /\ ~req.allowsAPIKey)
    => /\ pc = "done"
       /\ resp.written
       /\ ErrAPIKeyNotAllowed \in resp.err
       /\ resp.err \cap {ErrNoAPIKey, ErrNoToken} = {}
       /\ ~resolved.called
       /\ ~handler.called

C2_Witness ==
    /\ pc = "done"
    /\ TokenPathFailed
    /\ req.apiKey = "ak1"
    /\ ~req.allowsAPIKey
    /\ resp.written

\* C3: a request whose token path fails and that has no API key header
\* ends with a 401 carrying the missing-credential error and the handler
\* is never called, whatever the route allows.
C3_NoCredentialIsUnauthorized ==
    (/\ TokenPathFailed
     /\ pc # "apikey"
     /\ req.apiKey = NoAPIKeyHeader)
    => /\ pc = "done"
       /\ resp.written
       /\ resp.status = StatusUnauthorized
       /\ resp.err \cap {ErrNoAPIKey, ErrNoToken} # {}
       /\ ~resolved.called
       /\ ~handler.called

C3_Witness ==
    /\ pc = "done"
    /\ TokenPathFailed
    /\ req.apiKey = NoAPIKeyHeader
    /\ req.allowsAPIKey
    /\ vres.called
    /\ resp.written

\* C4: every error of the API key resolver ends the request with an error
\* response and without a handler call: 401 for ErrInvalidAPIKey and
\* ErrUserNotFound, 500 for any other error.
C4_ResolverErrorsAreResponses ==
    (pc \in {"attach", "call", "done"} /\ resolved.called /\ err # NoErr)
    => /\ pc = "done"
       /\ resp.written
       /\ ~handler.called
       /\ resp.status = IF ErrInvalidAPIKey \in err \/ ErrUserNotFound \in err
                        THEN StatusUnauthorized
                        ELSE StatusInternalServerError

\* C5: whenever the handler is called it gets a non-nil user and a context
\* that holds the token of the credential that authenticated the request,
\* attached before the call.
C5_HandlerGetsUserAndToken ==
    /\ pc = "call" => (ctxToken = token /\ token # NilToken /\ u # NilUser)
    /\ handler.called =>
         /\ handler.user # NilUser
         /\ handler.ctx # NilToken
         /\ handler.ctx = IF TokenPathOK THEN vres.ret ELSE TokenForUser(handler.user)

\* C6: a token whose algorithm is not an RSA one is refused by keyForToken
\* before the key set is looked up or fetched, and ValidateToken returns no
\* token, also when its kid is published and it is signed with the bytes of
\* that public key as the secret.
C6_NonRSAAlgorithmRefusedBeforeLookup ==
    (vres.called /\ vres.tok.kind = "jwt" /\ ~IsSigningMethodRSA(vres.tok.alg))
    => /\ vres.err # NoErr
       /\ ErrSigningMethod \in vres.err
       /\ vres.ret = NilToken
       /\ ~vres.looked
       /\ vres.fetches = 0
       /\ oathkeeperPubKeys = vres.before

C6_Witness ==
    /\ vres.called
    /\ vres.tok.alg = "HS256"
    /\ vres.tok.kid \in published
    /\ vres.tok.signer = vres.tok.kid
    /\ vres.tok.exp > vres.at
    /\ vres.tok.sub \in Users
    /\ ~vres.before.nil /\ vres.tok.kid \in vres.before.keys
    /\ vres.err # NoErr

\* C7: ValidateToken accepts no token without an exp claim and no token
\* whose exp is not strictly after the time of validation.
C7_ExpiryRequiredAndInFuture ==
    (vres.called /\ vres.err = NoErr)
    => (vres.tok.exp # ExpAbsent /\ vres.tok.exp > vres.at)

\* C8: ValidateToken accepts no token whose sub claim is absent or is not
\* a string.
C8_SubjectRequired ==
    (vres.called /\ vres.err = NoErr) => vres.ret.sub \in Subs

\* C9: a call of oathkeeperPublicKeys with an empty cache makes one fetch
\* and, when the fetch succeeds, stores and returns the parsed key set; a
\* call with a filled cache makes no fetch and returns the cached set; a
\* filled cache is never replaced.
C9_CallsOfKeyCache ==
    (vres.called /\ vres.looked)
    => IF vres.before.nil
       THEN /\ vres.fetches = 1
            /\ vres.net = "ok" =>
                 (vres.set = KeySetOf(vres.doc) /\ oathkeeperPubKeys = KeySetOf(vres.doc))
            /\ vres.net # "ok" => (vres.err # NoErr /\ oathkeeperPubKeys.nil)
       ELSE /\ vres.fetches = 0
            /\ vres.set = vres.before
            /\ oathkeeperPubKeys = vres.before

C9_FetchOnceThenCached ==
    /\ []C9_CallsOfKeyCache
    /\ [][~oathkeeperPubKeys.nil => oathkeeperPubKeys' = oathkeeperPubKeys]_vars

C9_Witness ==
    /\ vres.called /\ vres.looked
    /\ ~vres.before.nil
    /\ vres.before.keys # vres.doc
    /\ vres.fetches = 0
    /\ vres.err = NoErr

\* C10: a kid that is not in the cached key set makes the validator fetch
\* the key set again, once, and ErrNoSuitableKey is returned only when the
\* kid is not in the refetched set either; so a token of a key published
\* after the cache was filled is validated.
C10_MissRefetchesOnce ==
    (/\ vres.called /\ vres.looked
     /\ ~vres.before.nil
     /\ vres.tok.kid \in Kids \ vres.before.keys)
    => /\ vres.fetches = 1
       /\ ErrNoSuitableKey \in vres.err => vres.tok.kid \notin vres.doc

\* ======================================================================
\* oathkeeperPublicKeys called from several goroutines (one per request)
\* ======================================================================

\* The error of each stage of the fetch.
StageErr(stage) ==
    CASE stage = "get" -> {"http-error"}
      [] stage = "read" -> {"read-error"}
      [] OTHER -> {"parse-error"}

StageNext(stage) ==
    CASE stage = "get" -> "read"
      [] stage = "read" -> "parse"
      [] OTHER -> "store"

\* A stage of the fetch (http.Get, ioutil.ReadAll, jwk.ParseString) ends:
\* the call and the cache afterwards.  A failed stage returns (nil, err).
\* http.Get receives the document the issuer serves then.
FetchStage_assignfirst(c, ok, served, cache) ==
    IF ~ok
    THEN [call |-> [c EXCEPT !.pc = "done", !.err = StageErr(c.pc), !.ret = NilKeySet],
          cache |-> NilKeySet]
    ELSE [call |-> [c EXCEPT !.pc = StageNext(c.pc),
                             !.doc = IF c.pc = "get" THEN served ELSE c.doc],
          cache |-> cache]

FetchStage(c, ok, served, cache) ==
    IF ~ok
    THEN [call |-> [c EXCEPT !.pc = "done", !.err = StageErr(c.pc), !.ret = NilKeySet],
          cache |-> cache]
    ELSE [call |-> [c EXCEPT !.pc = StageNext(c.pc),
                             !.doc = IF c.pc = "get" THEN served ELSE c.doc],
          cache |-> cache]

\* What the other specifications leave alone.
KCFrame == UNCHANGED <<authVars, published, aks, vl, ck, mt, mu, us, tx, tc, iso, rt>>

\* A goroutine enters oathkeeperPublicKeys.
KCCall(p) ==
    /\ kc[p].pc = "idle"
    /\ kc' = [kc EXCEPT ![p].pc = "check"]
    /\ UNCHANGED oathkeeperPubKeys
    /\ KCFrame

\* if oathkeeperPubKeys == nil
KCCheck(p) ==
    /\ kc[p].pc = "check"
    /\ kc' = [kc EXCEPT ![p].pc = IF oathkeeperPubKeys.nil THEN "get" ELSE "return"]
    /\ UNCHANGED oathkeeperPubKeys
    /\ KCFrame

\* http.Get, ioutil.ReadAll, jwk.ParseString, each with its error return.
KCFetch(p) ==
    /\ kc[p].pc \in {"get", "read", "parse"}
    /\ \E ok \in BOOLEAN :
         LET r == FetchStage(kc[p], ok, published, oathkeeperPubKeys)
         IN /\ kc' = [kc EXCEPT ![p] = r.call]
            /\ oathkeeperPubKeys' = r.cache
    /\ KCFrame

\* oathkeeperPubKeys = set
KCStore(p) ==
    /\ kc[p].pc = "store"
    /\ oathkeeperPubKeys' = KeySetOf(kc[p].doc)
    /\ kc' = [kc EXCEPT ![p].pc = "return"]
    /\ KCFrame

\* return oathkeeperPubKeys, nil
KCReturn(p) ==
    /\ kc[p].pc = "return"
    /\ kc' = [kc EXCEPT ![p].pc = "done", ![p].ret = oathkeeperPubKeys]
    /\ UNCHANGED oathkeeperPubKeys
    /\ KCFrame

\* The caller is gone.
KCLeave(p) ==
    /\ kc[p].pc = "done"
    /\ kc' = [kc EXCEPT ![p] = IdleCall]
    /\ UNCHANGED oathkeeperPubKeys
    /\ KCFrame

NextKeyCache ==
    \/ IssuerPublish
    \/ \E p \in Procs : KCCall(p)
    \/ \E p \in Procs : KCCheck(p)
    \/ \E p \in Procs : KCFetch(p)
    \/ \E p \in Procs : KCStore(p)
    \/ \E p \in Procs : KCReturn(p)
    \/ \E p \in Procs : KCLeave(p)

SpecKeyCache == Init /\ [][NextKeyCache]_vars

\* A fetch is outstanding from http.Get's request until the body is parsed.
Fetching(p) == kc[p].pc \in {"read", "parse"}

\* C11: of the callers that find the cache empty at most one has a fetch
\* outstanding at any time, and the callers that return get the same key set.
C11_SingleFlight ==
    /\ Cardinality({p \in Procs : Fetching(p)}) <= 1
    /\ \A p, q \in Procs :
         (kc[p].pc = "done" /\ kc[q].pc = "done" /\ kc[p].err = NoErr /\ kc[q].err = NoErr)
         => kc[p].ret = kc[q].ret

\* The cache is empty or holds all the keys of a document the issuer served.
CacheComplete ==
    oathkeeperPubKeys.nil
    \/ ("k1" \in oathkeeperPubKeys.keys /\ oathkeeperPubKeys.keys \subseteq published)

\* A call ends with an error in this step.
FailsNow(p) ==
    /\ kc[p].pc \in {"get", "read", "parse"}
    /\ kc'[p].pc = "done"

\* C12: a fetch that fails at any stage returns an error and no key set and
\* leaves the cache as it was; the cache is always empty or complete.
C12_FailedFetchLeavesCache ==
    /\ []CacheComplete
    /\ [][\A p \in Procs :
            FailsNow(p) => /\ kc'[p].err # NoErr
                           /\ kc'[p].ret = NilKeySet
                           /\ oathkeeperPubKeys' = oathkeeperPubKeys]_vars

C12_Witness ==
    \E p \in Procs :
        /\ kc[p].pc = "done"
        /\ kc[p].err = {"parse-error"}
        /\ ~oathkeeperPubKeys.nil

\* ======================================================================
\* The API key endpoints (api/apikeys.go) over the API key store
\* ======================================================================

StatusBadRequest == 400
StatusNotFound == 404

\* Users that own API keys, and the skylinks a key may cover.
AKUsers == {"u1", "u2"}
Links == {"s1", "s2"}

\* Most keys a user may have, and the number of keys ever created.
MaxNumAPIKeysPerUser == 1
MaxIDs == 2

ErrNoDocuments == "ErrNoDocuments"
ErrMaxNumAPIKeysExceeded == "ErrMaxNumAPIKeysExceeded"
ErrInvalidAPIKeyOperation == "ErrInvalidAPIKeyOperation"
ErrDB == "db-error"

\* database.APIKeyRecord; the secret of the key created with identifier id.
NewAPIKey(id) == id
NilRec == [id |-> 0, user |-> NilUser, public |-> FALSE, key |-> 0, skylinks |-> {}]
StoreResult(store, rec, e) == [store |-> store, rec |-> rec, err |-> e]

\* ---- the store (database package)

APIKeyCreate_novalidation(store, id, user, public, skylinks, fault) ==
    IF fault THEN StoreResult(store, NilRec, {ErrDB})
    ELSE IF Cardinality({r \in store : r.user = user}) >= MaxNumAPIKeysPerUser
    THEN StoreResult(store, NilRec, {ErrMaxNumAPIKeysExceeded})
    ELSE LET rec == [id |-> id, user |-> user, public |-> public,
                     key |-> NewAPIKey(id), skylinks |-> skylinks]
         IN StoreResult(store \cup {rec}, rec, NoErr)

\* A new key: at most MaxNumAPIKeysPerUser per user; a non-public key carries
\* no skylinks.
APIKeyCreate(store, id, user, public, skylinks, fault) ==
    IF fault THEN StoreResult(store, NilRec, {ErrDB})
    ELSE IF Cardinality({r \in store : r.user = user}) >= MaxNumAPIKeysPerUser
    THEN StoreResult(store, NilRec, {ErrMaxNumAPIKeysExceeded})
    ELSE IF ~public /\ skylinks # {}
    THEN StoreResult(store, NilRec, {ErrInvalidAPIKeyOperation})
    ELSE LET rec == [id |-> id, user |-> user, public |-> public,
                     key |-> NewAPIKey(id), skylinks |-> skylinks]
         IN StoreResult(store \cup {rec}, rec, NoErr)

APIKeyGet(store, id, fault) ==
    IF fault THEN StoreResult(store, NilRec, {ErrDB})
    ELSE IF \E r \in store : r.id = id
    THEN StoreResult(store, CHOOSE r \in store : r.id = id, NoErr)
    ELSE StoreResult(store, NilRec, {ErrNoDocuments})

APIKeyList(store, user) == {r \in store : r.user = user}

APIKeyDelete(store, user, id, fault) ==
    IF fault THEN StoreResult(store, NilRec, {ErrDB})
    ELSE IF \E r \in store : r.id = id /\ r.user = user
    THEN StoreResult({r \in store : r.id # id}, NilRec, NoErr)
    ELSE StoreResult(store, NilRec, {ErrNoDocuments})

\* The keys an update or a patch of user's key id applies to: public ones.
Updatable(store, user, id) == {r \in store : r.id = id /\ r.user = user /\ r.public}

APIKeyUpdate_anykey(store, user, id, skylinks, fault) ==
    IF fault THEN StoreResult(store, NilRec, {ErrDB})
    ELSE IF \E r \in store : r.id = id /\ r.user = user
    THEN StoreResult({IF r.id = id THEN [r EXCEPT !.skylinks = skylinks] ELSE r : r \in store},
                     NilRec, NoErr)
    ELSE StoreResult(store, NilRec, {ErrNoDocuments})

APIKeyUpdate(store, user, id, skylinks, fault) ==
    IF fault THEN StoreResult(store, NilRec, {ErrDB})
    ELSE IF Updatable(store, user, id) # {}
    THEN StoreResult({IF r.id = id THEN [r EXCEPT !.skylinks = skylinks] ELSE r : r \in store},
                     NilRec, NoErr)
    ELSE StoreResult(store, NilRec, {ErrNoDocuments})

APIKeyPatch(store, user, id, add, remove, fault) ==
    IF fault THEN StoreResult(store, NilRec, {ErrDB})
    ELSE IF Updatable(store, user, id) # {}
    THEN StoreResult({IF r.id = id THEN [r EXCEPT !.skylinks = (r.skylinks \cup add) \ remove]
                                   ELSE r : r \in store},
                     NilRec, NoErr)
    ELSE StoreResult(store, NilRec, {ErrNoDocuments})

\* ---- responses

\* The JSON of an APIKeyResponse: UserID and Key are tagged json:"-"; key is
\* the set of key values the object shows.
APIKeyResponse_showkey(rec) ==
    [id |-> rec.id, public |-> rec.public, skylinks |-> rec.skylinks, key |-> {rec.key}]

APIKeyResponse(rec) ==
    [id |-> rec.id, public |-> rec.public, skylinks |-> rec.skylinks, key |-> {}]

\* The JSON of an APIKeyResponseWithKey: its own Key field is tagged "key".
APIKeyResponseWithKey(rec) == [APIKeyResponse(rec) EXCEPT !.key = {rec.key}]

WriteError(op, status) ==
    [op |-> op, kind |-> "error", status |-> status, objs |-> {}, created |-> 0]
WriteJSON(op, objs, created) ==
    [op |-> op, kind |-> "json", status |-> 0, objs |-> objs, created |-> created]
WriteSuccess(op) ==
    [op |-> op, kind |-> "success", status |-> 0, objs |-> {}, created |-> 0]

StoreCall(fn, user, id, public, skylinks) ==
    [fn |-> fn, user |-> user, id |-> id, public |-> public, skylinks |-> skylinks]

\* ---- the handlers: the state after the request

APIKeyPOSTs == [Public : BOOLEAN, Skylinks : SUBSET Links]

userAPIKeyPOST(s, usr, bodyok, body, fault) ==
    IF ~bodyok
    THEN [s EXCEPT !.call = NoAKCall, !.resp = WriteError("POST", StatusBadRequest)]
    ELSE LET r == APIKeyCreate(s.store, s.nextID, usr, body.Public, body.Skylinks, fault)
             call == StoreCall("APIKeyCreate", usr, 0, body.Public, body.Skylinks)
         IN IF ErrMaxNumAPIKeysExceeded \in r.err
            THEN [s EXCEPT !.call = call, !.resp = WriteError("POST", StatusBadRequest)]
            ELSE IF r.err # NoErr
            THEN [s EXCEPT !.call = call,
                           !.resp = WriteError("POST", StatusInternalServerError)]
            ELSE [store |-> r.store, nextID |-> s.nextID + 1, call |-> call,
                  resp |-> WriteJSON("POST", {APIKeyResponseWithKey(r.rec)}, r.rec.id)]

\* userAPIKeyGET without the comparison of the record's owner with the user.
userAPIKeyGET_noowner(s, usr, hexok, id, fault) ==
    IF ~hexok
    THEN [s EXCEPT !.call = NoAKCall, !.resp = WriteError("GET", StatusBadRequest)]
    ELSE LET r == APIKeyGet(s.store, id, fault)
             call == StoreCall("APIKeyGet", NilUser, id, FALSE, {})
         IN IF ErrNoDocuments \in r.err
            THEN [s EXCEPT !.call = call, !.resp = WriteError("GET", StatusNotFound)]
            ELSE IF r.err # NoErr
            THEN [s EXCEPT !.call = call,
                           !.resp = WriteError("GET", StatusInternalServerError)]
            ELSE [s EXCEPT !.call = call,
                           !.resp = WriteJSON("GET", {APIKeyResponse(r.rec)}, 0)]

userAPIKeyGET(s, usr, hexok, id, fault) ==
    IF ~hexok
    THEN [s EXCEPT !.call = NoAKCall, !.resp = WriteError("GET", StatusBadRequest)]
    ELSE LET r == APIKeyGet(s.store, id, fault)
             call == StoreCall("APIKeyGet", NilUser, id, FALSE, {})
         IN IF ErrNoDocuments \in r.err \/ (r.err = NoErr /\ r.rec.user # usr)
            THEN [s EXCEPT !.call = call, !.resp = WriteError("GET", StatusNotFound)]
            ELSE IF r.err # NoErr
            THEN [s EXCEPT !.call = call,
                           !.resp = WriteError("GET", StatusInternalServerError)]
            ELSE [s EXCEPT !.call = call,
                           !.resp = WriteJSON("GET", {APIKeyResponse(r.rec)}, 0)]

userAPIKeyLIST(s, usr, fault) ==
    LET call == StoreCall("APIKeyList", usr, 0, FALSE, {})
    IN IF fault
       THEN [s EXCEPT !.call = call, !.resp = WriteError("LIST", StatusInternalServerError)]
       ELSE [s EXCEPT !.call = call,
                      !.resp = WriteJSON("LIST",
                                         {APIKeyResponse(r) : r \in APIKeyList(s.store, usr)}, 0)]

userAPIKeyDELETE(s, usr, hexok, id, fault) ==
    IF ~hexok
    THEN [s EXCEPT !.call = NoAKCall, !.resp = WriteError("DELETE", StatusBadRequest)]
    ELSE LET r == APIKeyDelete(s.store, usr, id, fault)
             call == StoreCall("APIKeyDelete", usr, id, FALSE, {})
         IN IF r.err = {ErrNoDocuments}
            THEN [s EXCEPT !.call = call, !.resp = WriteError("DELETE", StatusBadRequest)]
            ELSE IF r.err # NoErr
            THEN [s EXCEPT !.call = call,
                           !.resp = WriteError("DELETE", StatusInternalServerError)]
            ELSE [s EXCEPT !.store = r.store, !.call = call, !.resp = WriteSuccess("DELETE")]

userAPIKeyPUT(s, usr, hexok, bodyok, id, skylinks, fault) ==
    IF ~hexok \/ ~bodyok
    THEN [s EXCEPT !.call = NoAKCall, !.resp = WriteError("PUT", StatusBadRequest)]
    ELSE LET r == APIKeyUpdate(s.store, usr, id, skylinks, fault)
             call == StoreCall("APIKeyUpdate", usr, id, FALSE, {})
         IN IF r.err # NoErr
            THEN [s EXCEPT !.call = call,
                           !.resp = WriteError("PUT", StatusInternalServerError)]
            ELSE [s EXCEPT !.store = r.store, !.call = call, !.resp = WriteSuccess("PUT")]

userAPIKeyPATCH(s, usr, hexok, bodyok, id, add, remove, fault) ==
    IF ~hexok \/ ~bodyok
    THEN [s EXCEPT !.call = NoAKCall, !.resp = WriteError("PATCH", StatusBadRequest)]
    ELSE LET r == APIKeyPatch(s.store, usr, id, add, remove, fault)
             call == StoreCall("APIKeyPatch", usr, id, FALSE, {})
         IN IF r.err # NoErr
            THEN [s EXCEPT !.call = call,
                           !.resp = WriteError("PATCH", StatusInternalServerError)]
            ELSE [s EXCEPT !.store = r.store, !.call = call, !.resp = WriteSuccess("PATCH")]

\* ---- one action per endpoint

AKFrame == UNCHANGED <<authVars, published, oathkeeperPubKeys, kc, vl, ck, mt, mu, us, tx, tc, iso, rt>>
IDs == 1 .. MaxIDs

\* The body does not parse; the identifier does not parse; the store fails;
\* or the request goes through.
AKPost ==
    /\ aks.nextID <= MaxIDs
    /\ \E usr \in AKUsers :
         \/ aks' = userAPIKeyPOST(aks, usr, FALSE, [Public |-> FALSE, Skylinks |-> {}], FALSE)
         \/ \E body \in APIKeyPOSTs, fault \in BOOLEAN :
              aks' = userAPIKeyPOST(aks, usr, TRUE, body, fault)
    /\ AKFrame

AKGet ==
    /\ \E usr \in AKUsers, id \in IDs :
         \/ aks' = userAPIKeyGET(aks, usr, FALSE, id, FALSE)
         \/ \E fault \in BOOLEAN : aks' = userAPIKeyGET(aks, usr, TRUE, id, fault)
    /\ AKFrame

AKList ==
    /\ \E usr \in AKUsers, fault \in BOOLEAN : aks' = userAPIKeyLIST(aks, usr, fault)
    /\ AKFrame

AKDelete ==
    /\ \E usr \in AKUsers, id \in IDs :
         \/ aks' = userAPIKeyDELETE(aks, usr, FALSE, id, FALSE)
         \/ \E fault \in BOOLEAN : aks' = userAPIKeyDELETE(aks, usr, TRUE, id, fault)
    /\ AKFrame

AKPut ==
    /\ \E usr \in AKUsers, id \in IDs :
         \/ \E hexok \in BOOLEAN : aks' = userAPIKeyPUT(aks, usr, hexok, ~hexok, id, {}, FALSE)
         \/ aks' = userAPIKeyPUT(aks, usr, TRUE, TRUE, id, {}, TRUE)
         \/ \E skylinks \in SUBSET Links :
              aks' = userAPIKeyPUT(aks, usr, TRUE, TRUE, id, skylinks, FALSE)
    /\ AKFrame

AKPatch ==
    /\ \E usr \in AKUsers, id \in IDs :
         \/ \E hexok \in BOOLEAN :
              aks' = userAPIKeyPATCH(aks, usr, hexok, ~hexok, id, {}, {}, FALSE)
         \/ aks' = userAPIKeyPATCH(aks, usr, TRUE, TRUE, id, {}, {}, TRUE)
         \/ \E add \in SUBSET Links, remove \in SUBSET Links :
              aks' = userAPIKeyPATCH(aks, usr, TRUE, TRUE, id, add, remove, FALSE)
    /\ AKFrame

NextAPIKeys == AKPost \/ AKGet \/ AKList \/ AKDelete \/ AKPut \/ AKPatch

SpecAPIKeys == Init /\ [][NextAPIKeys]_vars

\* C13: userAPIKeyPOST never calls APIKeyCreate for a body with
\* public = false and a non-empty skylinks list, and no record is created
\* for such a body.
C13_InvalidBodyNeverReachesStore ==
    aks.call.fn = "APIKeyCreate" => (aks.call.public \/ aks.call.skylinks = {})

\* A stored key that is not public covers no skylinks.
ScopeInvariant == \A r \in aks.store : ~r.public => r.skylinks = {}

C16_SecretOnlyAtCreation ==
    \A o \in aks.resp.objs :
        o.key # {} => /\ aks.resp.op = "POST"
                      /\ o.id = aks.resp.created
                      /\ o.key = {NewAPIKey(o.id)}

C16_Witness ==
    /\ aks.resp.op \in {"GET", "LIST"}
    /\ aks.resp.objs # {}
    /\ \A o \in aks.resp.objs : o.key = {}

\* ======================================================================
\* APIKeyPOST.Valid
\* ======================================================================

\* Most skylinks in a request body.
MaxSkylinks == 3

\* Strings a body may list as skylinks; database.ValidSkylinkHash accepts
\* the well-formed ones.
SkylinkStrings == Links \cup {"bad"}
ValidSkylinkHash(s) == s \in Links

SeqsUpTo(S, n) == UNION {[1 .. k -> S] : k \in 0 .. n}
ValidBodies == [Public : BOOLEAN, Skylinks : SeqsUpTo(SkylinkStrings, MaxSkylinks)]

\* for _, s := range akp.Skylinks: false at the first entry that fails.
RECURSIVE RangeSkylinks(_, _)
RangeSkylinks(skylinks, i) ==
    IF i > Len(skylinks) THEN TRUE
    ELSE IF ~ValidSkylinkHash(skylinks[i]) THEN FALSE
    ELSE RangeSkylinks(skylinks, i + 1)

Valid_nopubliccheck(akp) == RangeSkylinks(akp.Skylinks, 1)

Valid(akp) ==
    IF ~akp.Public /\ Len(akp.Skylinks) > 0 THEN FALSE
    ELSE RangeSkylinks(akp.Skylinks, 1)

InitValid ==
    /\ AuthIdle
    /\ published = {"k1"}
    /\ oathkeeperPubKeys = NilKeySet
    /\ KCIdle
    /\ rt = RTIdle
    /\ iso = ISOIdle
    /\ tc = TCIdle
    /\ tx = TXIdle
    /\ us = USIdle
    /\ mu = MUIdle
    /\ aks = AKIdle
    /\ ck = CKIdle
    /\ mt = MTIdle
    /\ vl \in {[VLIdle EXCEPT !.body = b] : b \in ValidBodies}

VLValid ==
    /\ ~vl.called
    /\ vl' = [vl EXCEPT !.called = TRUE, !.ret = Valid(vl.body)]
    /\ UNCHANGED <<authVars, published, oathkeeperPubKeys, kc, aks, ck, mt, mu, us, tx, tc, iso, rt>>

NextValid == VLValid

SpecValid == InitValid /\ [][NextValid]_vars

\* C14: Valid is true exactly when (Public or no skylinks) and every skylink
\* is well-formed; empty lists are valid for public and for private keys, and
\* one malformed entry makes the body invalid.
C14_ValidIffScopeRuleAndFormat ==
    vl.called =>
        /\ vl.ret = (/\ vl.body.Public \/ vl.body.Skylinks = <<>>
                     /\ \A i \in DOMAIN vl.body.Skylinks :
                            ValidSkylinkHash(vl.body.Skylinks[i]))
        /\ vl.body.Skylinks = <<>> => vl.ret
        /\ (\E i \in DOMAIN vl.body.Skylinks : vl.body.Skylinks[i] = "bad") => ~vl.ret

C14_Witness ==
    /\ vl.called
    /\ ~vl.body.Public
    /\ vl.body.Skylinks = <<"s1", "s2">>
    /\ ~vl.ret

\* ======================================================================
\* The login cookie (writeCookie and the secure cookie codec)
\* ======================================================================

CookieName == "skynet-jwt"
cookieValidity == 604800

\* The clock counts half seconds (time.Now is finer than the Unix seconds of
\* exp); the clock and the exp arguments are bounded.
TicksPerSecond == 2
MaxClock == 6
MaxExp == 3
Exps == (0 - 1) .. MaxExp

\* Values of COOKIE_HASH_KEY and COOKIE_ENC_KEY ("" when unset) and the
\* tokens written; "long" is a token whose encoding exceeds the codec's
\* maximum length.
HashKeys == {"", "h1", "h2"}
BlockKeys == {"", "b1", "b2"}
CookieTokens == {"t1", "t2", "long"}
TooLong(t) == t = "long"

\* securecookie.New(hashKey, blockKey): a codec, in error when the hash key
\* is empty or the block key is no AES key.
secureCookie(hash, block) ==
    [hash |-> hash, block |-> block,
     err |-> IF hash = "" THEN {"hash key is not set"}
             ELSE IF block = "" THEN {"invalid key size"}
             ELSE NoErr]

\* securecookie Encode: the value serialized, encrypted under the block key,
\* authenticated with the name under the hash key.
Encode(codec, name, value) ==
    IF codec.err # NoErr THEN [value |-> NoCookieValue, err |-> codec.err]
    ELSE IF TooLong(value) THEN [value |-> NoCookieValue, err |-> {"the value is too long"}]
    ELSE [value |-> [name |-> name, body |-> value, hash |-> codec.hash,
                     block |-> codec.block, intact |-> TRUE],
          err |-> NoErr]

Decode_nomac(codec, name, v) ==
    IF codec.err # NoErr THEN [token |-> "", err |-> codec.err]
    ELSE IF v.block # codec.block THEN [token |-> "", err |-> {"decryption failed"}]
    ELSE [token |-> v.body, err |-> NoErr]

\* securecookie Decode: the MAC is verified first, then the value decrypted
\* and deserialized.
Decode(codec, name, v) ==
    IF codec.err # NoErr THEN [token |-> "", err |-> codec.err]
    ELSE IF ~v.intact \/ v.hash # codec.hash \/ v.name # name
    THEN [token |-> "", err |-> {"the value is not valid"}]
    ELSE IF v.block # codec.block THEN [token |-> "", err |-> {"decryption failed"}]
    ELSE [token |-> v.body, err |-> NoErr]

\* decode(cookieValue) -> token | absent: no cookie and a cookie that does
\* not decode are both absent.
tokenFromCookie(codec, cookie) ==
    IF cookie = NoCookie THEN Absent
    ELSE LET r == Decode(codec, CookieName, cookie.Value)
         IN IF r.err # NoErr THEN Absent ELSE [ok |-> TRUE, token |-> r.token]

\* A byte of the value changed.
Tamper(cookie) == [cookie EXCEPT !.Value.intact = FALSE]

WriteResult(cookie, e) == [cookie |-> cookie, err |-> e]

writeCookie_rawvalue(codec, t, exp, t1, t2) ==
    LET e == IF exp <= 0 \/ exp * TicksPerSecond < t1 THEN t2 \div TicksPerSecond ELSE exp
        r == Encode(codec, CookieName, t)
    IN IF r.err # NoErr THEN WriteResult(NoCookie, r.err)
       ELSE WriteResult([Name |-> CookieName,
                         Value |-> [r.value EXCEPT !.hash = "", !.block = ""],
                         Expires |-> e, MaxAge |-> cookieValidity], NoErr)

writeCookie_noclamp(codec, t, exp, t1, t2) ==
    LET r == Encode(codec, CookieName, t)
    IN IF r.err # NoErr THEN WriteResult(NoCookie, r.err)
       ELSE WriteResult([Name |-> CookieName, Value |-> r.value,
                         Expires |-> exp, MaxAge |-> cookieValidity], NoErr)

\* writeCookie(w, token, exp) with the clock read at t1 in the condition and
\* at t2 in the assignment.
writeCookie(codec, t, exp, t1, t2) ==
    LET e == IF exp <= 0 \/ exp * TicksPerSecond < t1 THEN t2 \div TicksPerSecond ELSE exp
        r == Encode(codec, CookieName, t)
    IN IF r.err # NoErr THEN WriteResult(NoCookie, r.err)
       ELSE WriteResult([Name |-> CookieName, Value |-> r.value,
                         Expires |-> e, MaxAge |-> cookieValidity], NoErr)

CKFrame == UNCHANGED <<authVars, published, oathkeeperPubKeys, kc, aks, vl, mt, mu, us, tx, tc, iso, rt>>

\* The keys are read from the environment when the process starts.
InitCookie ==
    /\ AuthIdle
    /\ published = {"k1"}
    /\ oathkeeperPubKeys = NilKeySet
    /\ KCIdle
    /\ rt = RTIdle
    /\ iso = ISOIdle
    /\ tc = TCIdle
    /\ tx = TXIdle
    /\ us = USIdle
    /\ mu = MUIdle
    /\ aks = AKIdle
    /\ vl = VLIdle
    /\ mt = MTIdle
    /\ ck \in {[CKIdle EXCEPT !.hash = h, !.block = b] : h \in HashKeys, b \in BlockKeys}

CKTick ==
    /\ ck.clock < MaxClock
    /\ ck' = [ck EXCEPT !.clock = ck.clock + 1]
    /\ CKFrame

CKWrite ==
    /\ \E t \in CookieTokens, exp \in Exps, t2 \in {ck.clock, ck.clock + 1} :
         /\ t2 <= MaxClock
         /\ LET r == writeCookie(secureCookie(ck.hash, ck.block), t, exp, ck.clock, t2)
            IN ck' = [ck EXCEPT !.clock = t2,
                                !.cookie = r.cookie,
                                !.write = [called |-> TRUE, token |-> t, exp |-> exp,
                                           at |-> ck.clock, err |-> r.err],
                                !.read = NoRead]
    /\ CKFrame

\* A request comes back with the cookie, possibly changed on the way, to a
\* process with these keys.
CKRead ==
    /\ ck.write.called
    /\ \E h \in HashKeys, b \in BlockKeys, tampered \in BOOLEAN :
         /\ tampered => ck.cookie # NoCookie
         /\ ck' = [ck EXCEPT !.read =
                      [called |-> TRUE, hash |-> h, block |-> b, tampered |-> tampered,
                       res |-> tokenFromCookie(secureCookie(h, b),
                                               IF tampered THEN Tamper(ck.cookie)
                                               ELSE ck.cookie)]]
    /\ CKFrame

NextCookie == CKTick \/ CKWrite \/ CKRead

SpecCookie == InitCookie /\ [][NextCookie]_vars

SameKeys == ck.read.hash = ck.hash /\ ck.read.block = ck.block
CookieRead == ck.read.called /\ ck.cookie # NoCookie

Clamped == ck.write.exp <= 0 \/ ck.write.exp * TicksPerSecond < ck.write.at

\* C19: the cookie written has MaxAge 604800; its Expires is the second of
\* the call when exp is zero, negative or before the call, and exp
\* otherwise, never before the second of the call; the encoded value is the
\* same for every exp.
C19_MaxAgeAndClampedExpires ==
    (ck.write.called /\ ck.write.err = NoErr) =>
        /\ ck.cookie.MaxAge = 604800
        /\ Clamped => /\ ck.cookie.Expires >= ck.write.at \div TicksPerSecond
                      /\ ck.cookie.Expires <= ck.clock \div TicksPerSecond
        /\ ~Clamped => ck.cookie.Expires = ck.write.exp
        /\ ck.cookie.Expires >= ck.write.at \div TicksPerSecond
        /\ \A e \in Exps :
             writeCookie(secureCookie(ck.hash, ck.block), ck.write.token, e,
                         ck.write.at, ck.write.at).cookie.Value = ck.cookie.Value

C19_Witness ==
    /\ ck.write.called /\ ck.write.err = NoErr
    /\ ck.write.exp > 0
    /\ Clamped
    /\ ck.cookie.Expires > ck.write.exp

\* ======================================================================
\* numChunks (skynet package)
\* ======================================================================

MiB == 1048576
SizeBaseSector == 4 * MiB
SizeChunk == 40 * MiB

\* Sizes: every whole number of MiB up to MaxMiB, one byte less and one byte
\* more, and the largest size of TestNumChunks.
MaxMiB == 50
Sizes == {sz \in {m * MiB + d : m \in 0 .. MaxMiB, d \in {0 - 1, 0, 1}} : sz >= 0}
             \cup {500 * MiB}

\* The table of TestNumChunks: size, result.
TestNumChunks ==
    { <<0 * MiB, 0>>, <<1 * MiB, 0>>, <<4 * MiB, 0>>,
      <<5 * MiB, 1>>, <<50 * MiB, 2>>, <<500 * MiB, 13>> }

numChunks_floor(size) ==
    IF size <= SizeBaseSector THEN 0
    ELSE (size - SizeBaseSector) \div SizeChunk

\* Chunks beyond the base sector, the last one counted whole.
numChunks(size) ==
    IF size <= SizeBaseSector THEN 0
    ELSE ((size - SizeBaseSector) + SizeChunk - 1) \div SizeChunk

InitMeter ==
    /\ AuthIdle
    /\ published = {"k1"}
    /\ oathkeeperPubKeys = NilKeySet
    /\ KCIdle
    /\ rt = RTIdle
    /\ iso = ISOIdle
    /\ tc = TCIdle
    /\ tx = TXIdle
    /\ us = USIdle
    /\ mu = MUIdle
    /\ aks = AKIdle
    /\ vl = VLIdle
    /\ ck = CKIdle
    /\ mt \in {[MTIdle EXCEPT !.size = sz] : sz \in Sizes}

MTNumChunks ==
    /\ ~mt.called
    /\ mt' = [mt EXCEPT !.called = TRUE, !.ret = numChunks(mt.size)]
    /\ UNCHANGED <<authVars, published, oathkeeperPubKeys, kc, aks, vl, ck, mu, us, tx, tc, iso, rt>>

NextMeter == MTNumChunks

SpecMeter == InitMeter /\ [][NextMeter]_vars

\* C20: numChunks is 0 up to 4 MiB and beyond that the least number of
\* 40 MiB chunks that hold size - 4 MiB; it gives the results of the test
\* table, 1 for 4 MiB + 1 byte and 1 for 44 MiB.
C20_NumChunks ==
    mt.called =>
        /\ mt.size <= 4 * 1048576 => mt.ret = 0
        /\ mt.size > 4 * 1048576 =>
             /\ mt.ret >= 1
             /\ (mt.ret - 1) * 40 * 1048576 < mt.size - 4 * 1048576
             /\ mt.size - 4 * 1048576 <= mt.ret * 40 * 1048576
        /\ \A t \in TestNumChunks \cup {<<4 * MiB + 1, 1>>, <<44 * MiB, 1>>} :
             mt.size = t[1] => mt.ret = t[2]

C20_Witness ==
    /\ mt.called
    /\ mt.size = 500 * MiB
    /\ mt.ret = 13

\* ======================================================================
\* RawStorageUsed, BandwidthUploadCost, BandwidthDownloadCost
\* ======================================================================

KiB == 1024
RedundancyBaseSector == 10
RedundancyChunk == 3

\* The constants of bandwidth_test.go.
baseSectorTotalSize == SizeBaseSector * RedundancyBaseSector
chunkTotalSize == SizeChunk * RedundancyChunk

\* The sizes of the meter and the largest size of TestBandwidthDownloadCost.
CostSizes == Sizes \cup {500 * MiB + 1}

TestRawStorageUsed ==
    { <<0, baseSectorTotalSize>>, <<1 * MiB, baseSectorTotalSize>>,
      <<4 * MiB, baseSectorTotalSize>>, <<5 * MiB, baseSectorTotalSize + chunkTotalSize>>,
      <<50 * MiB, baseSectorTotalSize + 2 * chunkTotalSize>>,
      <<500 * MiB, baseSectorTotalSize + 13 * chunkTotalSize>> }

TestBandwidthUploadCost ==
    { <<0, RedundancyBaseSector * SizeBaseSector>>,
      <<1 * MiB, RedundancyBaseSector * SizeBaseSector>>,
      <<4 * MiB, RedundancyBaseSector * SizeBaseSector>>,
      <<5 * MiB, RedundancyBaseSector * SizeBaseSector + RedundancyChunk * SizeChunk>>,
      <<50 * MiB, RedundancyBaseSector * SizeBaseSector + 2 * RedundancyChunk * SizeChunk>>,
      <<500 * MiB, RedundancyBaseSector * SizeBaseSector + 13 * RedundancyChunk * SizeChunk>> }

TestBandwidthDownloadCost ==
    { <<0, 200 * KiB>>, <<1 * MiB, 200 * KiB + 1 * MiB>>,
      <<1 * MiB + 1, 200 * KiB + 1 * MiB + 64>>, <<4 * MiB, 200 * KiB + 4 * MiB>>,
      <<4 * MiB + 1, 200 * KiB + 4 * MiB + 64>>, <<50 * MiB, 200 * KiB + 50 * MiB>>,
      <<500 * MiB + 1, 200 * KiB + 500 * MiB + 64>> }

RawStorageUsed_nobase(size) ==
    IF numChunks(size) = 0 THEN SizeBaseSector * RedundancyBaseSector
    ELSE numChunks(size) * SizeChunk * RedundancyChunk

\* The base sector and the chunks, each with its redundancy.
RawStorageUsed(size) ==
    SizeBaseSector * RedundancyBaseSector + numChunks(size) * SizeChunk * RedundancyChunk

\* An upload is charged for the storage it takes on the network.
BandwidthUploadCost(size) == RawStorageUsed(size)

BandwidthDownloadCost_alwaysround(size) ==
    200 * KiB + (size \div 64 + 1) * 64

\* The fixed cost of a download and the size in whole 64-byte pieces.
BandwidthDownloadCost(size) ==
    200 * KiB + ((size + 63) \div 64) * 64

InitCosts ==
    /\ AuthIdle
    /\ published = {"k1"}
    /\ oathkeeperPubKeys = NilKeySet
    /\ KCIdle
    /\ rt = RTIdle
    /\ iso = ISOIdle
    /\ tc = TCIdle
    /\ tx = TXIdle
    /\ us = USIdle
    /\ aks = AKIdle
    /\ vl = VLIdle
    /\ ck = CKIdle
    /\ mt = MTIdle
    /\ mu \in {[MUIdle EXCEPT !.size = sz] : sz \in CostSizes}

MUFrame == UNCHANGED <<authVars, published, oathkeeperPubKeys, kc, aks, vl, ck, mt, us, tx, tc, iso, rt>>

MURawStorageUsed ==
    /\ mu.op = "none"
    /\ mu' = [mu EXCEPT !.op = "RawStorageUsed", !.ret = RawStorageUsed(mu.size)]
    /\ MUFrame

MUBandwidthUploadCost ==
    /\ mu.op = "none"
    /\ mu' = [mu EXCEPT !.op = "BandwidthUploadCost", !.ret = BandwidthUploadCost(mu.size)]
    /\ MUFrame

MUBandwidthDownloadCost ==
    /\ mu.op = "none"
    /\ mu' = [mu EXCEPT !.op = "BandwidthDownloadCost",
                        !.ret = BandwidthDownloadCost(mu.size)]
    /\ MUFrame

NextCosts == MURawStorageUsed \/ MUBandwidthUploadCost \/ MUBandwidthDownloadCost

SpecCosts == InitCosts /\ [][NextCosts]_vars

\* The least n with size <= 4 MiB + n * 40 MiB.
ChunksNeeded(size) ==
    CHOOSE n \in 0 .. 13 : /\ size <= 4 * MiB + n * 40 * MiB
                           /\ n > 0 => size > 4 * MiB + (n - 1) * 40 * MiB

\* C21: RawStorageUsed is the base sector with its redundancy plus the
\* chunks with theirs, BandwidthUploadCost equals RawStorageUsed, and every
\* upload costs at least one redundant base sector; both agree with the
\* tables of their tests.
C21_UploadCostIsRawStorage ==
    /\ mu.op = "RawStorageUsed" =>
         /\ mu.ret = 4 * MiB * RedundancyBaseSector
                       + ChunksNeeded(mu.size) * 40 * MiB * RedundancyChunk
         /\ \A t \in TestRawStorageUsed : mu.size = t[1] => mu.ret = t[2]
    /\ mu.op = "BandwidthUploadCost" =>
         /\ mu.ret = RawStorageUsed(mu.size)
         /\ mu.ret >= 4 * MiB * RedundancyBaseSector
         /\ \A t \in TestBandwidthUploadCost : mu.size = t[1] => mu.ret = t[2]

C21_Witness ==
    /\ mu.op = "BandwidthUploadCost"
    /\ mu.size = 0
    /\ mu.ret = baseSectorTotalSize

\* C22: BandwidthDownloadCost is 200 KiB plus the least multiple of 64 that
\* is not below the size; it agrees with the table of its test.
C22_DownloadCostRoundsUpTo64 ==
    mu.op = "BandwidthDownloadCost" =>
        LET r == mu.ret - 200 * 1024
        IN /\ r % 64 = 0
           /\ r >= mu.size
           /\ r < mu.size + 64
           /\ mu.size % 64 = 0 => r = mu.size
           /\ mu.size % 64 = 1 => r = mu.size + 63
           /\ \A t \in TestBandwidthDownloadCost : mu.size = t[1] => mu.ret = t[2]

C22_Witness ==
    /\ mu.op = "BandwidthDownloadCost"
    /\ mu.size = 1 * MiB + 1
    /\ mu.ret = 200 * KiB + 1 * MiB + 64

\* ======================================================================
\* Registered operations and db.UserStats
\* ======================================================================

\* Operations registered in all.
MaxOps == 3

PriceBandwidthRegistryRead == 1 * MiB
PriceBandwidthRegistryWrite == 5 * MiB

\* testUploadSizeSmall and testUploadSizeBig, smallDownload and bigDownload.
UploadSizes == {1, 4 * MiB + 1}
DownloadSizes == {1, 100 * MiB}

\* The bandwidth of one registered operation.
CostOf(e) ==
    CASE e.kind = "upload" -> BandwidthUploadCost(e.size)
      [] e.kind = "download" -> BandwidthDownloadCost(e.size)
      [] e.kind = "regread" -> PriceBandwidthRegistryRead
      [] OTHER -> PriceBandwidthRegistryWrite

RECURSIVE SumCost(_)
SumCost(es) == IF es = <<>> THEN 0 ELSE CostOf(Head(es)) + SumCost(Tail(es))

OfAnyUser(db, usr, kind) == SelectSeq(db, LAMBDA e : e.kind = kind)
OfUser(db, usr, kind) == SelectSeq(db, LAMBDA e : e.user = usr /\ e.kind = kind)

UserStats_allusers(db, usr) ==
    [NumUploads |-> Len(OfAnyUser(db, usr, "upload")),
     BandwidthUploads |-> SumCost(OfAnyUser(db, usr, "upload")),
     NumDownloads |-> Len(OfAnyUser(db, usr, "download")),
     BandwidthDownloads |-> SumCost(OfAnyUser(db, usr, "download")),
     NumRegReads |-> Len(OfAnyUser(db, usr, "regread")),
     BandwidthRegReads |-> SumCost(OfAnyUser(db, usr, "regread")),
     NumRegWrites |-> Len(OfAnyUser(db, usr, "regwrite")),
     BandwidthRegWrites |-> SumCost(OfAnyUser(db, usr, "regwrite"))]

\* db.UserStats: per kind, the user's operations counted and their
\* bandwidth added up.
UserStats(db, usr) ==
    [NumUploads |-> Len(OfUser(db, usr, "upload")),
     BandwidthUploads |-> SumCost(OfUser(db, usr, "upload")),
     NumDownloads |-> Len(OfUser(db, usr, "download")),
     BandwidthDownloads |-> SumCost(OfUser(db, usr, "download")),
     NumRegReads |-> Len(OfUser(db, usr, "regread")),
     BandwidthRegReads |-> SumCost(OfUser(db, usr, "regread")),
     NumRegWrites |-> Len(OfUser(db, usr, "regwrite")),
     BandwidthRegWrites |-> SumCost(OfUser(db, usr, "regwrite"))]

\* createTestUpload, DownloadCreate, RegistryReadCreate, RegistryWriteCreate.
Register(db, usr, kind, size) == Append(db, [user |-> usr, kind |-> kind, size |-> size])

InitStats ==
    /\ AuthIdle
    /\ published = {"k1"}
    /\ oathkeeperPubKeys = NilKeySet
    /\ KCIdle
    /\ rt = RTIdle
    /\ iso = ISOIdle
    /\ tc = TCIdle
    /\ tx = TXIdle
    /\ us = USIdle
    /\ aks = AKIdle
    /\ vl = VLIdle
    /\ ck = CKIdle
    /\ mt = MTIdle
    /\ mu = MUIdle

USFrame == UNCHANGED <<authVars, published, oathkeeperPubKeys, kc, aks, vl, ck, mt, mu, tx, tc, iso, rt>>
NoStatsCall == [called |-> FALSE, user |-> NilUser, ret |-> NoStats]

\* An upload is registered; the test adds its cost to the expected bandwidth.
USUpload ==
    /\ Len(us.db) < MaxOps
    /\ \E usr \in StatUsers, size \in UploadSizes :
         us' = [db |-> Register(us.db, usr, "upload", size),
                expected |-> [us.expected EXCEPT
                                ![usr].NumUploads = @ + 1,
                                ![usr].BandwidthUploads = @ + BandwidthUploadCost(size)],
                stats |-> NoStatsCall]
    /\ USFrame

USDownload ==
    /\ Len(us.db) < MaxOps
    /\ \E usr \in StatUsers, size \in DownloadSizes :
         us' = [db |-> Register(us.db, usr, "download", size),
                expected |-> [us.expected EXCEPT
                                ![usr].NumDownloads = @ + 1,
                                ![usr].BandwidthDownloads = @ + BandwidthDownloadCost(size)],
                stats |-> NoStatsCall]
    /\ USFrame

USRegistryRead ==
    /\ Len(us.db) < MaxOps
    /\ \E usr \in StatUsers :
         us' = [db |-> Register(us.db, usr, "regread", 0),
                expected |-> [us.expected EXCEPT
                                ![usr].NumRegReads = @ + 1,
                                ![usr].BandwidthRegReads = @ + PriceBandwidthRegistryRead],
                stats |-> NoStatsCall]
    /\ USFrame

USRegistryWrite ==
    /\ Len(us.db) < MaxOps
    /\ \E usr \in StatUsers :
         us' = [db |-> Register(us.db, usr, "regwrite", 0),
                expected |-> [us.expected EXCEPT
                                ![usr].NumRegWrites = @ + 1,
                                ![usr].BandwidthRegWrites = @ + PriceBandwidthRegistryWrite],
                stats |-> NoStatsCall]
    /\ USFrame

\* stats, err := db.UserStats(ctx, u.ID)
USUserStats ==
    /\ ~us.stats.called
    /\ \E usr \in StatUsers :
         us' = [us EXCEPT !.stats = [called |-> TRUE, user |-> usr,
                                     ret |-> UserStats(us.db, usr)]]
    /\ USFrame

NextStats == USUpload \/ USDownload \/ USRegistryRead \/ USRegistryWrite \/ USUserStats

SpecStats == InitStats /\ [][NextStats]_vars

\* The fields of the statistics that belong to a kind of operation.
FieldsOf(kind) ==
    CASE kind = "upload" -> {"NumUploads", "BandwidthUploads"}
      [] kind = "download" -> {"NumDownloads", "BandwidthDownloads"}
      [] kind = "regread" -> {"NumRegReads", "BandwidthRegReads"}
      [] OTHER -> {"NumRegWrites", "BandwidthRegWrites"}

StatsAsExpected == us.stats.called => us.stats.ret = us.expected[us.stats.user]

KeyInfrastructureError ==
    /\ vres.called
    /\ vres.err \cap {"http-error", "read-error", "parse-error"} # {}

\* C24: a request whose token validation fails because the key set cannot
\* be fetched or parsed gets a 500 response, and a request without
\* credential, with a token refused for another reason or with an unknown
\* API key gets a 401 response.
C24_KeyFailureIsInternal ==
    pc = "done" =>
        /\ KeyInfrastructureError => (resp.written /\ resp.status = StatusInternalServerError)
        /\ (resp.written /\ ~KeyInfrastructureError /\ ~resolved.called)
             => resp.status = StatusUnauthorized

\* C26: a request ends with the handler called once or with one error
\* response, never both; the handler is called exactly when the token path
\* or the API key path returned no error, and then with a user and a token.
C26_HandlerIffNoError ==
    pc = "done" =>
        /\ handler.called # resp.written
        /\ handler.called <=> (TokenPathOK \/ (resolved.called /\ err = NoErr))
        /\ handler.called => (handler.user # NilUser /\ handler.ctx # NilToken)

\* C27: a request with a valid token of an existing user ends with the
\* handler called as that user, whatever its API key header and the route's
\* allowsAPIKey flag are, and the API key resolver is not called for it.
C27_ValidTokenNeedsNoAPIKey ==
    (pc = "done" /\ TokenPathOK) =>
        /\ handler.called
        /\ handler.user = vres.ret.sub
        /\ handler.ctx = vres.ret
        /\ ~resp.written
        /\ ~resolved.called

C27_Witness ==
    /\ pc = "done" /\ TokenPathOK
    /\ req.apiKey = "ak2"
    /\ ~req.allowsAPIKey
    /\ handler.called
    /\ handler.user = "u1"

\* ======================================================================
\* tokenFromRequest on requests with an Authorization header and a cookie
\* ======================================================================

\* Login cookies a request may carry: each decodes to a token string.
ReqCookies ==
    {NoReqCookie} \cup
    [present : {TRUE},
     tok : {t \in JWTs : t.alg = "RS256" /\ t.kid = "k1" /\ t.signer = "k1" /\ t.exp = MaxTime}]

InitExtract ==
    /\ AuthIdle
    /\ published = {"k1"}
    /\ oathkeeperPubKeys = NilKeySet
    /\ KCIdle
    /\ rt = RTIdle
    /\ iso = ISOIdle
    /\ tc = TCIdle
    /\ us = USIdle
    /\ aks = AKIdle
    /\ vl = VLIdle
    /\ ck = CKIdle
    /\ mt = MTIdle
    /\ mu = MUIdle
    /\ tx \in {[TXIdle EXCEPT !.auth = a, !.cookie = c] : a \in AuthHeaders, c \in ReqCookies}

\* tokenFromRequest(r)
TXExtract ==
    /\ ~tx.called
    /\ tx' = [tx EXCEPT !.called = TRUE,
                        !.res = tokenFromRequest([auth |-> tx.auth, cookie |-> tx.cookie])]
    /\ UNCHANGED <<authVars, published, oathkeeperPubKeys, kc, aks, vl, ck, mt, mu, us, tc, iso, rt>>

NextExtract == TXExtract

SpecExtract == InitExtract /\ [][NextExtract]_vars

\* C25: the token of the Authorization: Bearer header is extracted when the
\* header is there, also when the request has a cookie; without the header
\* the token the cookie decodes to is extracted.
C25_HeaderThenCookie ==
    tx.called =>
        /\ tx.auth.scheme = "Bearer" => tx.res = [tok |-> tx.auth.tok, err |-> NoErr]
        /\ (tx.auth.scheme # "Bearer" /\ tx.cookie.present)
             => tx.res = [tok |-> tx.cookie.tok, err |-> NoErr]

\* ======================================================================
\* tokenFromContext
\* ======================================================================

\* What the request context holds under the key "token": nothing (or a
\* value of another type), a nil *jwt.Token, or a token whose Claims are a
\* jwt.MapClaims (what jwt.Parse builds) or a jwt.StandardClaims struct.
NilCtxToken == [kind |-> "nilptr", claims |-> "", tok |-> NilToken]
CtxValues ==
    {NoCtxValue, NilCtxToken} \cup
    [kind : {"token"}, claims : {"MapClaims", "StandardClaims"}, tok : JWTs]

\* The named results of tokenFromContext when it returns; a run-time panic
\* leaves no results.
CtxReturn(s, cnil, t, e) ==
    [outcome |-> "return", sub |-> s, claimsNil |-> cnil, token |-> t, err |-> e]
CtxPanic == [NoCtxResult EXCEPT !.outcome = "panic"]

\* tokenFromContext(req): the type assertion of the context value, the
\* read of t.Claims, the kind check of the claims, the kind check of the
\* sub (which sets err and goes on), the lookup of the sub and its type
\* assertion to string.
tokenFromContext(c) ==
    IF c.kind = "none" THEN CtxReturn("", TRUE, NoCtxValue, {"failed to get token"})
    ELSE IF c.kind = "nilptr" THEN CtxPanic
    ELSE IF c.claims # "MapClaims"
    THEN CtxReturn("", TRUE, NoCtxValue, {"the token does not contain the claims we expect"})
    ELSE LET e1 == IF c.tok.sub \in Subs THEN NoErr
                   ELSE {"the token does not contain the sub we expect"}
         IN IF c.tok.sub = SubAbsent
            THEN CtxReturn("", TRUE, NoCtxValue, {"jwt claims don't contain a valid sub"})
            ELSE IF c.tok.sub = SubNotString THEN CtxPanic
            ELSE CtxReturn(c.tok.sub, FALSE, c, e1)

InitContext ==
    /\ AuthIdle
    /\ published = {"k1"}
    /\ oathkeeperPubKeys = NilKeySet
    /\ KCIdle
    /\ rt = RTIdle
    /\ iso = ISOIdle
    /\ us = USIdle
    /\ aks = AKIdle
    /\ vl = VLIdle
    /\ ck = CKIdle
    /\ mt = MTIdle
    /\ mu = MUIdle
    /\ tx = TXIdle
    /\ tc \in {[TCIdle EXCEPT !.ctx = c] : c \in CtxValues}

TCTokenFromContext ==
    /\ ~tc.called
    /\ tc' = [tc EXCEPT !.called = TRUE, !.res = tokenFromContext(tc.ctx)]
    /\ UNCHANGED <<authVars, published, oathkeeperPubKeys, kc, aks, vl, ck, mt, mu, us, tx, iso, rt>>

NextContext == TCTokenFromContext

SpecContext == InitContext /\ [][NextContext]_vars

\* C28: tokenFromContext never faults: it returns either no error with
\* the context's token and a string sub, or an error with a nil token; a
\* sub that is present but not a string gives an error.
C28_TokenFromContextNeverFaults ==
    tc.called =>
        /\ tc.res.outcome = "return"
        /\ tc.res.err = NoErr =>
             /\ tc.res.token = tc.ctx
             /\ tc.ctx.kind = "token"
             /\ tc.res.sub \in Subs
        /\ tc.res.err # NoErr => tc.res.token = NoCtxValue
        /\ (tc.ctx.kind = "token" /\ tc.ctx.claims = "MapClaims" /\ tc.ctx.tok.sub = SubNotString)
             => tc.res.err # NoErr

\* ======================================================================
\* userAPIKeyGET and userAPIKeyLIST over two stores that differ only in
\* other users' keys
\* ======================================================================

\* The records a store may hold under the identifier id: what APIKeyCreate
\* stores (a private key has no skylinks).
RecordsOf(id) ==
    {[id |-> id, user |-> usr, public |-> p, key |-> NewAPIKey(id), skylinks |-> sl] :
        usr \in AKUsers, p \in BOOLEAN, sl \in {{}, Links}} \ 
    {[id |-> id, user |-> usr, public |-> FALSE, key |-> NewAPIKey(id), skylinks |-> Links] :
        usr \in AKUsers}

\* The stores APIKeyCreate can build: one record at most per identifier,
\* MaxNumAPIKeysPerUser keys at most per user.
Stores ==
    {st \in {UNION {f[i] : i \in IDs} : f \in [IDs -> {{}} \cup {{r} : r \in UNION {RecordsOf(i) : i \in IDs}}]} :
        /\ \A r1, r2 \in st : r1.id = r2.id => r1 = r2
        /\ \A usr \in AKUsers : Cardinality({r \in st : r.user = usr}) <= MaxNumAPIKeysPerUser}

KeysOf(st, usr) == {r \in st : r.user = usr}

InitIsolation ==
    /\ AuthIdle
    /\ published = {"k1"}
    /\ oathkeeperPubKeys = NilKeySet
    /\ KCIdle
    /\ rt = RTIdle
    /\ us = USIdle
    /\ aks = AKIdle
    /\ vl = VLIdle
    /\ ck = CKIdle
    /\ mt = MTIdle
    /\ mu = MUIdle
    /\ tx = TXIdle
    /\ tc = TCIdle
    /\ \E usr \in AKUsers, sa \in Stores :
         \E sb \in {st \in Stores : KeysOf(st, usr) = KeysOf(sa, usr)} :
            iso = [ISOIdle EXCEPT !.usr = usr,
                                  !.a = [AKIdle EXCEPT !.store = sa],
                                  !.b = [AKIdle EXCEPT !.store = sb]]

ISOFrame == UNCHANGED <<authVars, published, oathkeeperPubKeys, kc, aks, vl, ck, mt, mu, us, tx, tc, rt>>

\* GET /user/apikeys/:id, the same request served over either store.
ISOGet ==
    /\ iso.op = "none"
    /\ \E id \in IDs, fault \in BOOLEAN :
         iso' = [iso EXCEPT !.op = "GET", !.id = id, !.fault = fault,
                            !.a = userAPIKeyGET(iso.a, iso.usr, TRUE, id, fault),
                            !.b = userAPIKeyGET(iso.b, iso.usr, TRUE, id, fault)]
    /\ ISOFrame

\* GET /user/apikeys/:id with an id that is not an ObjectID.
ISOGetBadID ==
    /\ iso.op = "none"
    /\ iso' = [iso EXCEPT !.op = "GET", !.hexok = FALSE,
                          !.a = userAPIKeyGET(iso.a, iso.usr, FALSE, 0, FALSE),
                          !.b = userAPIKeyGET(iso.b, iso.usr, FALSE, 0, FALSE)]
    /\ ISOFrame

\* GET /user/apikeys.
ISOList ==
    /\ iso.op = "none"
    /\ \E fault \in BOOLEAN :
         iso' = [iso EXCEPT !.op = "LIST", !.fault = fault,
                            !.a = userAPIKeyLIST(iso.a, iso.usr, fault),
                            !.b = userAPIKeyLIST(iso.b, iso.usr, fault)]
    /\ ISOFrame

NextIsolation == ISOGet \/ ISOGetBadID \/ ISOList

SpecIsolation == InitIsolation /\ [][NextIsolation]_vars

\* The identifier asked for is the key of another user in the store.
ForeignKey(st) == \E r \in st : r.id = iso.id /\ r.user # iso.usr

\* C29: GET answers with a key only when the key is the requesting
\* user's; for another user's key it answers the 404 of a key that does
\* not exist; and over two stores that differ only in other users' keys
\* the answers of GET and of LIST are the same.
C29_OtherUsersKeysAreInvisible ==
    /\ iso.op # "none" => iso.a.resp = iso.b.resp
    /\ iso.op # "none" =>
         \A o \in iso.a.resp.objs : \E r \in KeysOf(iso.a.store, iso.usr) : o = APIKeyResponse(r)
    /\ (iso.op = "GET" /\ iso.hexok /\ ~iso.fault /\ ForeignKey(iso.a.store))
         => iso.a.resp = WriteError("GET", StatusNotFound)

\* A GET of a key that another user has in one store and nobody has in the
\* other, answered 404 in both.
C29_Witness ==
    /\ iso.op = "GET" /\ iso.hexok /\ ~iso.fault
    /\ ForeignKey(iso.a.store)
    /\ ~\E r \in iso.b.store : r.id = iso.id
    /\ KeysOf(iso.a.store, iso.usr) # {}
    /\ iso.a.resp = WriteError("GET", StatusNotFound)
    /\ iso.b.resp = WriteError("GET", StatusNotFound)

\* ======================================================================
\* buildHTTPRoutes: which routes an API key opens
\* ======================================================================

\* api.noAuth(h) and api.withAuth(h, allowsAPIKey): the handler as the
\* router holds it.
noAuth(h) == [handler |-> h, auth |-> "noAuth", allowsAPIKey |-> FALSE]

\* withAuth letting an API key in whatever the route says.
withAuth_open(h, allowsAPIKey) == [handler |-> h, auth |-> "withAuth", allowsAPIKey |-> TRUE]

withAuth(h, allowsAPIKey) ==
    [handler |-> h, auth |-> "withAuth", allowsAPIKey |-> allowsAPIKey]

Route(method, path, wrap) == [method |-> method, path |-> path, wrap |-> wrap]

\* The routes in the order buildHTTPRoutes registers them; a path is the
\* sequence of its segments.
buildHTTPRoutes ==
    { Route("GET", <<"health">>, noAuth("healthGET")),
      Route("GET", <<"limits">>, noAuth("limitsGET")),
      Route("GET", <<"login">>, noAuth("loginGET")),
      Route("POST", <<"login">>, noAuth("loginPOST")),
      Route("POST", <<"logout">>, withAuth("logoutPOST", FALSE)),
      Route("GET", <<"register">>, noAuth("registerGET")),
      Route("POST", <<"register">>, noAuth("registerPOST")),
      Route("POST", <<"track", "upload", ":skylink">>, withAuth("trackUploadPOST", TRUE)),
      Route("POST", <<"track", "download", ":skylink">>, withAuth("trackDownloadPOST", TRUE)),
      Route("POST", <<"track", "registry", "read">>, withAuth("trackRegistryReadPOST", TRUE)),
      Route("POST", <<"track", "registry", "write">>, withAuth("trackRegistryWritePOST", TRUE)),
      Route("POST", <<"user">>, noAuth("userPOST")),
      Route("GET", <<"user">>, withAuth("userGET", FALSE)),
      Route("PUT", <<"user">>, withAuth("userPUT", FALSE)),
      Route("DELETE", <<"user">>, withAuth("userDELETE", FALSE)),
      Route("GET", <<"user", "limits">>, noAuth("userLimitsGET")),
      Route("GET", <<"user", "limits", ":skylink">>, noAuth("userLimitsSkylinkGET")),
      Route("GET", <<"user", "stats">>, withAuth("userStatsGET", FALSE)),
      Route("GET", <<"user", "pubkey", "register">>, withAuth("userPubKeyRegisterGET", FALSE)),
      Route("POST", <<"user", "pubkey", "register">>, withAuth("userPubKeyRegisterPOST", FALSE)),
      Route("GET", <<"user", "uploads">>, withAuth("userUploadsGET", FALSE)),
      Route("DELETE", <<"user", "uploads", ":skylink">>, withAuth("userUploadsDELETE", FALSE)),
      Route("GET", <<"user", "downloads">>, withAuth("userDownloadsGET", FALSE)),
      Route("POST", <<"user", "apikeys">>, withAuth("userAPIKeyPOST", FALSE)),
      Route("GET", <<"user", "apikeys">>, withAuth("userAPIKeyLIST", FALSE)),
      Route("GET", <<"user", "apikeys", ":id">>, withAuth("userAPIKeyGET", FALSE)),
      Route("PUT", <<"user", "apikeys", ":id">>, withAuth("userAPIKeyPUT", FALSE)),
      Route("PATCH", <<"user", "apikeys", ":id">>, withAuth("userAPIKeyPATCH", FALSE)),
      Route("DELETE", <<"user", "apikeys", ":id">>, withAuth("userAPIKeyDELETE", FALSE)),
      Route("GET", <<"user", "confirm">>, noAuth("userConfirmGET")),
      Route("POST", <<"user", "reconfirm">>, withAuth("userReconfirmPOST", FALSE)),
      Route("POST", <<"user", "recover", "request">>, noAuth("userRecoverRequestPOST")),
      Route("POST", <<"user", "recover">>, noAuth("userRecoverPOST")),
      Route("POST", <<"stripe", "webhook">>, noAuth("stripeWebhookPOST")),
      Route("GET", <<"stripe", "prices">>, noAuth("stripePricesGET")),
      Route("GET", <<".well-known", "jwks.json">>, noAuth("wellKnownJWKSGET")) }

\* What the wrapper does with a request that has no Authorization header
\* and the API key header k: noAuth calls the handler with a nil user;
\* withAuth finds no token, reads the API key, applies the route's flag
\* and resolves the key.
ServeWithoutToken(wrap, k, fault) ==
    IF wrap.auth = "noAuth" THEN [out |-> CallHandler, user |-> NilUser, fault |-> "none"]
    ELSE LET r == [auth |-> NoAuthHeader, apiKey |-> k, allowsAPIKey |-> wrap.allowsAPIKey]
             b1 == TokenBranch(tokenFromRequest(r).err)
             a == apiKeyFromRequest(r)
             b2 == APIKeyBranch(a.err, wrap.allowsAPIKey)
             res == userAndTokenByAPIKey(a.ak, fault)
         IN IF b1.kind # "next" THEN [out |-> b1, user |-> NilUser, fault |-> "none"]
            ELSE IF b2.kind # "next" THEN [out |-> b2, user |-> NilUser, fault |-> "none"]
            ELSE [out |-> ResolverBranch(res.err), user |-> res.u, fault |-> fault]

InitRoutes ==
    /\ AuthIdle
    /\ published = {"k1"}
    /\ oathkeeperPubKeys = NilKeySet
    /\ KCIdle
    /\ us = USIdle
    /\ aks = AKIdle
    /\ vl = VLIdle
    /\ ck = CKIdle
    /\ mt = MTIdle
    /\ mu = MUIdle
    /\ tx = TXIdle
    /\ tc = TCIdle
    /\ iso = ISOIdle
    /\ rt = RTIdle

RTFrame == UNCHANGED <<authVars, published, oathkeeperPubKeys, kc, aks, vl, ck, mt, mu, us, tx, tc, iso>>

RTServe(route, k, fault) ==
    LET s == ServeWithoutToken(route.wrap, k, fault)
    IN rt' = [route |-> route, apiKey |-> k, fault |-> s.fault, served |-> TRUE,
              out |-> s.out, user |-> s.user]

\* A request without a token at a route registered with withAuth.
RTWithAuth ==
    /\ ~rt.served
    /\ \E route \in buildHTTPRoutes, k \in APIKeyHeaders, fault \in StoreFaults :
         /\ route.wrap.auth = "withAuth"
         /\ RTServe(route, k, fault)
    /\ RTFrame

\* A request without a token at a route registered with noAuth.
RTNoAuth ==
    /\ ~rt.served
    /\ \E route \in buildHTTPRoutes, k \in APIKeyHeaders :
         /\ route.wrap.auth = "noAuth"
         /\ RTServe(route, k, "none")
    /\ RTFrame

NextRoutes == RTWithAuth \/ RTNoAuth

SpecRoutes == InitRoutes /\ [][NextRoutes]_vars

\* The handlers of API key management, of reading, updating and deleting
\* the user, and of logout.
TokenOnlyHandlers ==
    {"userAPIKeyPOST", "userAPIKeyLIST", "userAPIKeyGET", "userAPIKeyPUT", "userAPIKeyPATCH",
     "userAPIKeyDELETE", "userGET", "userPUT", "userDELETE", "logoutPOST"}

TrackPaths ==
    {<<"track", "upload", ":skylink">>, <<"track", "download", ":skylink">>,
     <<"track", "registry", "read">>, <<"track", "registry", "write">>}

\* C30: a withAuth route allows API keys exactly when it is one of the
\* four /track routes, and a request that has an API key and no token
\* reaches the handler of no other withAuth route: not API key
\* management, not user read, update or delete, not logout.
C30_OnlyTrackRoutesAllowAPIKeys ==
    rt.served =>
        /\ rt.route.wrap.auth = "withAuth" =>
             (rt.route.wrap.allowsAPIKey <=> (rt.route.method = "POST" /\ rt.route.path \in TrackPaths))
        /\ (rt.route.wrap.auth = "withAuth" /\ rt.out.kind = "handler") =>
             /\ rt.route.path \in TrackPaths
             /\ rt.apiKey # NoAPIKeyHeader
        /\ rt.route.wrap.handler \in TokenOnlyHandlers => rt.out.kind = "respond"

\* A known user's API key sent to GET /user/apikeys/:id and refused.
C30_Witness ==
    /\ rt.served
    /\ rt.apiKey = "ak1"
    /\ rt.route.wrap.handler = "userAPIKeyGET"
    /\ rt.out = Respond(StatusUnauthorized, {ErrAPIKeyNotAllowed})

====
